---------------------------- MODULE Spec2Model ----------------------------
(***************************************************************************)
(* A model of the fake-news detector backend: the verdict synthesis rule   *)
(* cascade (services/synthesis_service.py), the fact-check retrieval step  *)
(* (services/fact_check_service.py), the classifier service                *)
(* (services/ml_service.py) and the /api/analyze handler                   *)
(* (routers/analyze.py).                                                   *)
(*                                                                         *)
(* Strings are sequences of one-character strings, so that str.lower() and *)
(* the substring test `needle in rating` are computed character by         *)
(* character.  Python floats are IEEE-754 binary64 values; a float is      *)
(* modelled exactly as a pair <<n, t>> that stands for the real number     *)
(*        n / Grid  +  t / (Grid * 2^UnitExp)                              *)
(* (a decimal on a 10^-4 grid plus the binary rounding offset), and every  *)
(* float operation is the exact operation followed by round-to-nearest,    *)
(* ties-to-even.                                                           *)
(***************************************************************************)
EXTENDS Integers, Sequences, FiniteSets, TLC

VARIABLES
    pc,             \* position of the request / of the function under test
    initialized,    \* MLService.initialized
    tokenizer,      \* MLService.tokenizer is loaded (not None)
    model,          \* MLService.model is loaded (not None)
    api_key,        \* FactCheckService.api_key
    classifier,     \* what model loading and inference do for the request in flight
    ml_result,      \* analyze_text: ml_result  (None before predict returns)
    retrieval,      \* what the Fact Check API does with the request in flight
    fact_checks,    \* analyze_text: fact_checks
    final_verdict,  \* analyze_text: final_verdict (None before synthesize returns)
    response,       \* what the caller of /api/analyze receives
    environment,    \* os.getenv("ENVIRONMENT")
    previous_failure \* the error body of the last failed request before this one

vars == <<pc, initialized, tokenizer, model, api_key, classifier, ml_result,
          retrieval, fact_checks, final_verdict, response, environment,
          previous_failure>>

\* Python's None (a record, so that it compares with the records it stands in for)
None == [none |-> TRUE]

\* check_claims: for claim in data["claims"][:5]
ClaimsLimit == 5

(***************************************************************************)
(* Bounds of the model.                                                    *)
(***************************************************************************)
\* longest evidence list handed to synthesize when it is checked on its own
MaxEvidence == 3
\* most claims in one Fact Check API response: one more than check_claims reads
MaxClaims == ClaimsLimit + 1
\* most claimReview entries under one claim
MaxReviews == 2

(***************************************************************************)
(* Strings.                                                                *)
(***************************************************************************)
UpperChars == <<"A","B","C","D","E","F","G","H","I","J","K","L","M",
                "N","O","P","Q","R","S","T","U","V","W","X","Y","Z">>
LowerChars == <<"a","b","c","d","e","f","g","h","i","j","k","l","m",
                "n","o","p","q","r","s","t","u","v","w","x","y","z">>

\* one character of str.lower()
LowerChar(ch) ==
    IF \E i \in DOMAIN UpperChars : UpperChars[i] = ch
    THEN LowerChars[CHOOSE i \in DOMAIN UpperChars : UpperChars[i] = ch]
    ELSE ch

\* str.lower()
lower(s) == [i \in DOMAIN s |-> LowerChar(s[i])]

\* Python's `needle in hay` for strings
In(needle, hay) ==
    \E k \in 0..(Len(hay) - Len(needle)) :
        \A i \in 1..Len(needle) : hay[k + i] = needle[i]

s_false == <<"f","a","l","s","e">>
s_pants_on_fire == <<"p","a","n","t","s"," ","o","n"," ","f","i","r","e">>
s_mostly_false == <<"m","o","s","t","l","y"," ","f","a","l","s","e">>
s_true == <<"t","r","u","e">>
s_mostly_true == <<"m","o","s","t","l","y"," ","t","r","u","e">>
s_correct == <<"c","o","r","r","e","c","t">>

\* synthesize: false_ratings = ["false", "pants on fire", "mostly false"]
false_ratings == <<s_false, s_pants_on_fire, s_mostly_false>>
\* synthesize: true_ratings = ["true", "mostly true", "correct"]
true_ratings == <<s_true, s_mostly_true, s_correct>>

\* textualRating strings a fact-checker may publish
r_FALSE == <<"F","A","L","S","E">>
r_MostlyFalse == <<"M","o","s","t","l","y"," ","F","a","l","s","e">>
r_PantsOnFire == <<"P","a","n","t","s"," ","o","n"," ","F","i","r","e">>
r_HalfTrue == <<"H","a","l","f"," ","T","r","u","e">>
r_HALFTRUE == <<"H","A","L","F"," ","T","R","U","E">>
r_Correct == <<"C","o","r","r","e","c","t">>
r_Unproven == <<"U","n","p","r","o","v","e","n">>
r_TrueAndFalse == <<"T","r","u","e"," ","a","n","d"," ","F","a","l","s","e">>
\* review.get("textualRating", "Unknown")
r_Unknown == <<"U","n","k","n","o","w","n">>

Ratings == {r_FALSE, s_false, r_MostlyFalse, r_PantsOnFire, r_HalfTrue,
            r_HALFTRUE, r_Correct, r_Unproven, r_TrueAndFalse}
RatingStrings == Ratings \cup {r_Unknown}

(***************************************************************************)
(* Floats (IEEE-754 binary64, round to nearest, ties to even).             *)
(***************************************************************************)
\* decimal grid: a float <<n, t>> lies next to the decimal n / Grid
Grid == 10000
\* the offset t counts units of 2^-UnitExp / Grid
UnitExp == 60

RECURSIVE Pow2(_)
Pow2(k) == IF k = 0 THEN 1 ELSE 2 * Pow2(k - 1)

RECURSIVE Pow2Mod(_, _)
Pow2Mod(e, m) == IF e = 0 THEN 1 % m ELSE (2 * Pow2Mod(e - 1, m)) % m

\* e such that the value n/Grid (+ offset t) has unit in the last place 2^-e
RECURSIVE ExpBelow(_, _, _)
ExpBelow(n, t, i) ==
    IF n * Pow2(i) > Grid \/ (n * Pow2(i) = Grid /\ t >= 0)
    THEN 52 + i
    ELSE ExpBelow(n, t, i + 1)

RECURSIVE ExpAbove(_, _, _)
ExpAbove(n, t, j) ==
    IF n < Grid * Pow2(j + 1) \/ (n = Grid * Pow2(j + 1) /\ t < 0)
    THEN 52 - j
    ELSE ExpAbove(n, t, j + 1)

ExpOf(n, t) ==
    IF n > Grid \/ (n = Grid /\ t >= 0) THEN ExpAbove(n, t, 0) ELSE ExpBelow(n, t, 1)

\* 2^e modulo Grid and modulo 2 * Grid, tabulated
Pow2ModGrid == [e \in 0..UnitExp |-> Pow2Mod(e, Grid)]
Pow2Mod2Grid == [e \in 0..UnitExp |-> Pow2Mod(e, 2 * Grid)]

\* The float nearest to the exact value n/Grid + t units (+ s infinitesimals):
\* the position of the value inside its ulp cell is computed modulo the ulp.
RoundAt(n, t, s, e, G) ==
    LET r == (Pow2(UnitExp - e) * ((n * Pow2ModGrid[e]) % Grid) + t) % G
        cells == (Pow2(UnitExp - e) * ((n * Pow2ModGrid[e]) % Grid) + t - r) \div G
        parity == (((n * Pow2Mod2Grid[e]) % (2 * Grid)) \div Grid + cells) % 2
        up == \/ 2 * r > G
              \/ 2 * r = G /\ (s > 0 \/ (s = 0 /\ parity = 1))
    IN  <<n, IF up THEN t - r + G ELSE t - r>>

Round(n, t, s) ==
    IF n = 0 /\ t = 0 THEN <<0, 0>>
    ELSE LET e == ExpOf(n, t)
         IN  RoundAt(n, t, s, e, Grid * Pow2(UnitExp - e))

\* a decimal literal with at most four decimals, e.g. 0.85 = FloatLit(8500)
FloatLit(n) == Round(n, 0, 0)
\* int -> float, exact
FloatInt(k) == <<k * Grid, 0>>

Sgn(x) == IF x > 0 THEN 1 ELSE IF x < 0 THEN -1 ELSE 0

\* a + b
FAdd(a, b) == Round(a[1] + b[1], a[2] + b[2], 0)
\* a * b, for operands next to multiples of 0.01
FMul(a, b) ==
    Round((a[1] \div 100) * (b[1] \div 100),
          (a[1] \div 100) * (b[2] \div 100) + (b[1] \div 100) * (a[2] \div 100),
          Sgn(a[2]) * Sgn(b[2]))
\* a < b, a > b, a <= b
FLess(a, b) == a[1] < b[1] \/ (a[1] = b[1] /\ a[2] < b[2])
FGreater(a, b) == FLess(b, a)
FLeq(a, b) == ~FLess(b, a)
\* min(a, b)
FMin(a, b) == IF FLess(b, a) THEN b ELSE a


(***************************************************************************)
(* SynthesisService.synthesize                                             *)
(***************************************************************************)
\* mutant of rating_matches: the rating is not lower-cased
rating_matches_case_sensitive(rating, words) ==
    \E w \in DOMAIN words : In(words[w], rating)
\* any(rating in fc['rating'].lower() for rating in <words>)
rating_matches(rating, words) ==
    \E w \in DOMAIN words : In(words[w], lower(rating))

\* rating_matches for every rating string of the model, evaluated once
matches_false == [r \in RatingStrings |-> rating_matches(r, false_ratings)]
matches_true == [r \in RatingStrings |-> rating_matches(r, true_ratings)]

\* false_count = sum(1 for fc in fact_checks if any(... for rating in false_ratings))
false_count(fcs) == Cardinality({i \in DOMAIN fcs : matches_false[fcs[i].rating]})
\* true_count = sum(1 for fc in fact_checks if any(... for rating in true_ratings))
true_count(fcs) == Cardinality({i \in DOMAIN fcs : matches_true[fcs[i].rating]})

\* the float literals of synthesize
F_0_95 == FloatLit(9500)
F_0_7 == FloatLit(7000)
F_0_1 == FloatLit(1000)
F_0_8 == FloatLit(8000)
F_0_85 == FloatLit(8500)
F_0_65 == FloatLit(6500)
F_0_5 == FloatLit(5000)

\* if false_count > true_count and false_count > 0
majority_false(fc, tc) == fc > tc /\ fc > 0
\* mutant of majority_true: a tie with true ratings counts as a majority
majority_true_or_tie(fc, tc) == tc >= fc /\ tc > 0
\* if true_count > false_count and true_count > 0
majority_true(fc, tc) == tc > fc /\ tc > 0
\* mutant of tie_confident: the threshold 0.8 itself counts as confident
tie_confident_at_threshold(fc, tc, ml_confidence) ==
    fc = tc /\ FLeq(F_0_8, ml_confidence)
\* if false_count == true_count and ml_confidence > 0.8
tie_confident(fc, tc, ml_confidence) == fc = tc /\ FGreater(ml_confidence, F_0_8)
\* if false_count == true_count
tie(fc, tc) == fc = tc
\* mutant of ml_high: the threshold 0.85 itself counts as high
ml_high_inclusive(ml_confidence) == FLeq(F_0_85, ml_confidence)
\* if ml_confidence > 0.85
ml_high(ml_confidence) == FGreater(ml_confidence, F_0_85)
\* if ml_confidence > 0.65
ml_moderate(ml_confidence) == FGreater(ml_confidence, F_0_65)

\* mutant of majority_confidence: the 0.7 base is missing
majority_confidence_without_base(count) == FMin(F_0_95, FMul(FloatInt(count), F_0_1))
\* mutant of majority_confidence: the 0.95 cap is missing
majority_confidence_uncapped(count) == FAdd(F_0_7, FMul(FloatInt(count), F_0_1))
\* min(0.95, 0.7 + (count * 0.1))
majority_confidence(count) == FMin(F_0_95, FAdd(F_0_7, FMul(FloatInt(count), F_0_1)))
\* ml_confidence * 0.85
tie_confidence(ml_confidence) == FMul(ml_confidence, F_0_85)

\* The reasoning texts, by their fixed wording; a reasoning also carries the
\* count or the label its text cites.
T_FactCheckersFalse == "Professional fact-checkers found this claim to be false."
T_FactCheckersTrue == "Professional fact-checkers verified this claim as true."
T_MixedConfident == "Fact-checkers provided mixed signals. Our AI model predicts"
T_MixedUncertain == "Fact-checkers provided conflicting assessments"
T_NoChecksHigh == "No fact-checks found. Our AI model predicts ... with high confidence"
T_NoChecksLikely == "No fact-checks found. Our AI model suggests this is likely"
T_NoDefinitive == "No definitive fact-checks found"

\* `if fact_checks:` and the four returns under it; None when none of them
\* is taken and control falls through to the model-only rules.
with_fact_checks(ml_prediction, ml_confidence, fcs) ==
    LET fc == false_count(fcs)
        tc == true_count(fcs)
    IN  IF fcs = <<>> THEN None
        ELSE IF majority_false(fc, tc)
        THEN [verdict |-> "FAKE", confidence |-> majority_confidence(fc),
              reasoning |-> [text |-> T_FactCheckersFalse, count |-> fc]]
        ELSE IF majority_true(fc, tc)
        THEN [verdict |-> "REAL", confidence |-> majority_confidence(tc),
              reasoning |-> [text |-> T_FactCheckersTrue, count |-> tc]]
        ELSE IF tie_confident(fc, tc, ml_confidence)
        THEN [verdict |-> ml_prediction, confidence |-> tie_confidence(ml_confidence),
              reasoning |-> [text |-> T_MixedConfident, label |-> ml_prediction]]
        ELSE IF tie(fc, tc)
        THEN [verdict |-> "UNCERTAIN", confidence |-> F_0_5,
              reasoning |-> [text |-> T_MixedUncertain]]
        ELSE None

\* the three returns after the `if fact_checks:` block
without_fact_checks(ml_prediction, ml_confidence) ==
    IF ml_high(ml_confidence)
    THEN [verdict |-> ml_prediction, confidence |-> ml_confidence,
          reasoning |-> [text |-> T_NoChecksHigh, label |-> ml_prediction]]
    ELSE IF ml_moderate(ml_confidence)
    THEN [verdict |-> ml_prediction, confidence |-> ml_confidence,
          reasoning |-> [text |-> T_NoChecksLikely, label |-> ml_prediction]]
    ELSE [verdict |-> "UNCERTAIN", confidence |-> ml_confidence,
          reasoning |-> [text |-> T_NoDefinitive]]

synthesize(ml_prediction, ml_confidence, fcs) ==
    LET under_if == with_fact_checks(ml_prediction, ml_confidence, fcs)
    IN  IF under_if # None THEN under_if
        ELSE without_fact_checks(ml_prediction, ml_confidence)

(***************************************************************************)
(* synthesize on its own: every input drawn from the bounded sets, one     *)
(* call.                                                                   *)
(***************************************************************************)
Labels == {"FAKE", "REAL"}
\* ML confidences in [0, 1], the thresholds and their neighbours included
MLConfidences ==
    {FloatLit(100 * c) : c \in {0, 50, 65, 80, 85, 90, 100}}

RECURSIVE SeqsUpTo(_, _)
SeqsUpTo(S, n) ==
    IF n = 0 THEN {<<>>}
    ELSE LET shorter == SeqsUpTo(S, n - 1)
         IN  shorter \cup {Append(q, x) : q \in {p \in shorter : Len(p) = n - 1}, x \in S}

EvidenceLists == SeqsUpTo({[rating |-> r] : r \in Ratings}, MaxEvidence)

InitSynth ==
    /\ pc = "synthesize"
    /\ initialized = TRUE /\ tokenizer = TRUE /\ model = TRUE
    /\ api_key = "key"
    /\ classifier = None
    /\ ml_result \in [prediction : Labels, confidence : MLConfidences]
    /\ retrieval = None
    /\ fact_checks \in EvidenceLists
    /\ final_verdict = None
    /\ response = None
    /\ environment = "production"
    /\ previous_failure = None

Synthesize ==
    /\ pc = "synthesize"
    /\ final_verdict' = synthesize(ml_result.prediction, ml_result.confidence, fact_checks)
    /\ pc' = "returned"
    /\ UNCHANGED <<initialized, tokenizer, model, api_key, classifier, ml_result,
                   retrieval, fact_checks, response, environment, previous_failure>>

NextSynth == Synthesize

SpecSynth == InitSynth /\ [][NextSynth]_vars

(***************************************************************************)
(* MLService                                                               *)
(***************************************************************************)
NoError == ""
\* what loading the tokenizer and the model can do
LoadOutcomes == {"loads", "tokenizer fails", "model fails", "to(device) fails"}

\* mutant of initialize: self.initialized = True is set at the start of the
\* try block instead of at its end
initialize_marks_first(st, load) ==
    IF st.initialized THEN [st |-> st, error |-> NoError, load_attempted |-> FALSE]
    ELSE CASE load = "loads" ->
                [st |-> [initialized |-> TRUE, tokenizer |-> TRUE, model |-> TRUE],
                 error |-> NoError, load_attempted |-> TRUE]
           [] load = "tokenizer fails" ->
                [st |-> [st EXCEPT !.initialized = TRUE],
                 error |-> "tokenizer could not be loaded", load_attempted |-> TRUE]
           [] load = "model fails" ->
                [st |-> [st EXCEPT !.initialized = TRUE, !.tokenizer = TRUE],
                 error |-> "model could not be loaded", load_attempted |-> TRUE]
           [] load = "to(device) fails" ->
                [st |-> [initialized |-> TRUE, tokenizer |-> TRUE, model |-> TRUE],
                 error |-> "model could not be moved to the device",
                 load_attempted |-> TRUE]
\* MLService.initialize on the service state st = [initialized, tokenizer,
\* model]: the new state, the text of the exception it raises (NoError when
\* it returns) and whether the try block that loads was entered.
initialize(st, load) ==
    IF st.initialized THEN [st |-> st, error |-> NoError, load_attempted |-> FALSE]
    ELSE CASE load = "loads" ->
                [st |-> [initialized |-> TRUE, tokenizer |-> TRUE, model |-> TRUE],
                 error |-> NoError, load_attempted |-> TRUE]
           [] load = "tokenizer fails" ->
                [st |-> st, error |-> "tokenizer could not be loaded",
                 load_attempted |-> TRUE]
           [] load = "model fails" ->
                [st |-> [st EXCEPT !.tokenizer = TRUE],
                 error |-> "model could not be loaded", load_attempted |-> TRUE]
           [] load = "to(device) fails" ->
                [st |-> [st EXCEPT !.tokenizer = TRUE, !.model = TRUE],
                 error |-> "model could not be moved to the device",
                 load_attempted |-> TRUE]

\* mutant of run_inference: a failed inference falls back to a default result
run_inference_with_fallback(inference) ==
    IF inference.kind = "raises"
    THEN [error |-> NoError,
          result |-> [prediction |-> "REAL", confidence |-> FloatLit(5000)]]
    ELSE [error |-> NoError,
          result |-> [prediction |-> inference.prediction,
                      confidence |-> inference.confidence]]
\* the try block of MLService.predict: inference raises, or returns a label
\* and the probability of that label
run_inference(inference) ==
    IF inference.kind = "raises"
    THEN [error |-> "inference failed", result |-> None]
    ELSE [error |-> NoError,
          result |-> [prediction |-> inference.prediction,
                      confidence |-> inference.confidence]]

\* MLService.predict: the new service state, the exception text (NoError when
\* it returns), the returned dict, whether initialize entered its loading
\* block and whether the try block with the inference was entered
predict(st, load, inference) ==
    LET init == IF ~st.initialized THEN initialize(st, load)
                ELSE [st |-> st, error |-> NoError, load_attempted |-> FALSE]
    IN  IF init.error # NoError
        THEN [st |-> init.st, error |-> init.error, result |-> None,
              load_attempted |-> init.load_attempted, inference_ran |-> FALSE]
        ELSE LET run == run_inference(inference)
             IN  [st |-> init.st, error |-> run.error, result |-> run.result,
                  load_attempted |-> init.load_attempted, inference_ran |-> TRUE]

(***************************************************************************)
(* FactCheckService.check_claims                                           *)
(***************************************************************************)
\* one appended dict; of its keys synthesize reads 'rating'
fact_check_of(review) ==
    [rating |-> IF review.has_rating THEN review.textualRating ELSE r_Unknown]

\* the nested loops over claims and their claimReview lists
RECURSIVE parse_claims(_)
parse_claims(claims) ==
    IF claims = <<>> THEN <<>>
    ELSE [i \in DOMAIN Head(claims).claimReview |->
             fact_check_of(Head(claims).claimReview[i])]
         \o parse_claims(Tail(claims))

\* data["claims"][:5]
first_claims(claims) ==
    SubSeq(claims, 1, IF Len(claims) < ClaimsLimit THEN Len(claims) ELSE ClaimsLimit)

\* the body of the try block once the response has arrived
parse_response(reply) ==
    IF reply.status_code # 200 THEN <<>>
    ELSE IF reply.body.json = "invalid" THEN <<>>       \* response.json() raises
    ELSE IF ~reply.body.has_claims THEN <<>>
    ELSE parse_claims(first_claims(reply.body.claims))

key_configured(key) == ~(key = "" \/ key = "your_api_key_here")

\* mutant of check_claims: httpx.TimeoutException is not caught
check_claims_timeout_raises(key, reply) ==
    IF ~key_configured(key) THEN [error |-> NoError, value |-> <<>>]
    ELSE CASE reply.kind = "timeout" -> [error |-> "timed out", value |-> <<>>]
           [] reply.kind = "error" -> [error |-> NoError, value |-> <<>>]
           [] reply.kind = "response" ->
                [error |-> NoError, value |-> parse_response(reply)]
\* check_claims: the returned list, or the text of an exception that leaves it
check_claims(key, reply) ==
    IF ~key_configured(key) THEN [error |-> NoError, value |-> <<>>]
    ELSE CASE reply.kind = "timeout" -> [error |-> NoError, value |-> <<>>]
           [] reply.kind = "error" -> [error |-> NoError, value |-> <<>>]
           [] reply.kind = "response" ->
                [error |-> NoError, value |-> parse_response(reply)]

(***************************************************************************)
(* routers/analyze.py                                                      *)
(***************************************************************************)
\* AnalyzeResponse(...): the Field(..., ge=0, le=1) constraints
valid_response(verdict, ml) ==
    /\ FLeq(FloatInt(0), verdict.confidence) /\ FLeq(verdict.confidence, FloatInt(1))
    /\ FLeq(FloatInt(0), ml.confidence) /\ FLeq(ml.confidence, FloatInt(1))

\* except Exception as e: raise HTTPException(500, f"Analysis failed: {str(e)}")
http_500(error) ==
    [kind |-> "error", status_code |-> 500, detail |-> <<"Analysis failed: ", error>>]

\* main.py global_exception_handler, for an exception that is no HTTPException
\* and leaves a route unhandled: the text is shown in development only.
\* analyze_text catches every Exception itself and raises an HTTPException,
\* which FastAPI answers with {"detail": detail}; this handler never sees it.
global_exception_handler(exc, env) ==
    [kind |-> "error", status_code |-> 500, detail |-> "Internal server error",
     message |-> IF env = "development" THEN exc ELSE "An error occurred"]

\* steps 3 and 4 of analyze_text: synthesize, then build the response
respond(ml, fcs) ==
    LET verdict == synthesize(ml.prediction, ml.confidence, fcs)
    IN  [final_verdict |-> verdict,
         response |->
            IF valid_response(verdict, ml)
            THEN [kind |-> "ok", status_code |-> 200,
                  verdict |-> verdict.verdict, confidence |-> verdict.confidence,
                  ml_prediction |-> ml.prediction, ml_confidence |-> ml.confidence,
                  fact_checks |-> fcs, reasoning |-> verdict.reasoning]
            ELSE http_500("validation error for AnalyzeResponse")]

(***************************************************************************)
(* The server: startup, then requests one after the other.                 *)
(***************************************************************************)
ApiKeys == {"", "your_api_key_here", "key"}
\* os.getenv("ENVIRONMENT"); "unset" stands for the variable being absent
Environments == {"development", "production", "unset"}
\* what inference can do: raise, or return a label with the probability of
\* the more probable of two classes
PredictConfidences == {FloatLit(5000), FloatLit(8500), FloatLit(9000)}
InferenceOutcomes ==
    {[kind |-> "raises"]}
    \cup [kind : {"result"}, prediction : Labels, confidence : PredictConfidences]

\* The replies of the Fact Check API.  Every review of one response carries
\* the same textualRating, or none carries any, and every claim of one
\* response carries the same number of reviews.
ApiReviews ==
    {[has_rating |-> FALSE]}
    \cup {[has_rating |-> TRUE, textualRating |-> r] : r \in {r_MostlyFalse, r_HalfTrue}}
ClaimsOf(review) ==
    {[claimReview |-> [i \in 1..n |-> review]] : n \in 0..MaxReviews}
\* a 200 response whose JSON object holds the claims cs
ClaimsReply(cs) ==
    [kind |-> "response", status_code |-> 200,
     body |-> [json |-> "object", has_claims |-> TRUE, claims |-> cs]]
\* the replies that hold no claims: a timeout, another httpx error, a non-200
\* status, a body that is no JSON, a JSON object without "claims"
PlainReplies ==
    {[kind |-> "timeout"], [kind |-> "error"],
     [kind |-> "response", status_code |-> 503, body |-> None],
     [kind |-> "response", status_code |-> 200, body |-> [json |-> "invalid"]],
     [kind |-> "response", status_code |-> 200,
      body |-> [json |-> "object", has_claims |-> FALSE]]}

service == [initialized |-> initialized, tokenizer |-> tokenizer, model |-> model]

Init ==
    /\ pc = "boot"
    /\ initialized = FALSE /\ tokenizer = FALSE /\ model = FALSE
    /\ api_key \in ApiKeys
    /\ classifier = None
    /\ ml_result = None
    /\ retrieval = None
    /\ fact_checks = <<>>
    /\ final_verdict = None
    /\ response = None
    /\ environment \in Environments
    /\ previous_failure = None

\* main.py startup_event: the model is loaded; a failure is logged and the
\* server starts all the same
startup_event ==
    /\ pc = "boot"
    /\ \E load \in LoadOutcomes :
         LET i == initialize(service, load)
         IN  /\ initialized' = i.st.initialized
             /\ tokenizer' = i.st.tokenizer
             /\ model' = i.st.model
    /\ pc' = "idle"
    /\ UNCHANGED <<api_key, classifier, ml_result, retrieval, fact_checks,
                   final_verdict, response, environment, previous_failure>>

\* analyze_text is entered with a validated request and calls predict; the
\* error body of the request before it, if it failed, is remembered
analyze_text ==
    /\ pc \in {"idle", "done"}
    /\ pc' = "predict"
    /\ classifier' = None
    /\ ml_result' = None
    /\ retrieval' = None
    /\ fact_checks' = <<>>
    /\ final_verdict' = None
    /\ response' = None
    /\ previous_failure' =
         IF response # None /\ response.kind = "error" THEN response
         ELSE previous_failure
    /\ UNCHANGED <<initialized, tokenizer, model, api_key, environment>>

\* `ml_result = await ml_service.predict(request.text)` returns or raises;
\* an exception ends the request in the handler's except clause, otherwise
\* check_claims is called
await_predict ==
    /\ pc = "predict"
    /\ \E load \in (IF initialized THEN {"not attempted"} ELSE LoadOutcomes),
          inference \in InferenceOutcomes :
         LET p == predict(service, load, inference)
         IN  /\ classifier' = [load |-> load, inference |-> inference]
             /\ initialized' = p.st.initialized
             /\ tokenizer' = p.st.tokenizer
             /\ model' = p.st.model
             /\ IF p.error # NoError
                THEN /\ response' = http_500(p.error)
                     /\ pc' = "done"
                     /\ UNCHANGED ml_result
                ELSE /\ ml_result' = p.result
                     /\ pc' = "check_claims"
                     /\ UNCHANGED response
    /\ UNCHANGED <<api_key, retrieval, fact_checks, final_verdict, environment,
                   previous_failure>>

\* `fact_checks = await fact_check_service.check_claims(request.text)`
\* returns or raises; the handler then runs to its end without suspending:
\* synthesize, AnalyzeResponse
finish_request(reply) ==
    LET c == check_claims(api_key, reply)
    IN  /\ retrieval' = reply
        /\ IF c.error # NoError
           THEN /\ response' = http_500(c.error)
                /\ UNCHANGED <<fact_checks, final_verdict>>
           ELSE LET r == respond(ml_result, c.value)
                IN  /\ fact_checks' = c.value
                    /\ final_verdict' = r.final_verdict
                    /\ response' = r.response
        /\ pc' = "done"
        /\ UNCHANGED <<initialized, tokenizer, model, api_key, classifier, ml_result,
                       environment, previous_failure>>

await_check_claims ==
    /\ pc = "check_claims"
    /\ IF ~key_configured(api_key) THEN finish_request(None)
       ELSE \/ \E reply \in PlainReplies : finish_request(reply)
            \/ \E review \in ApiReviews, k \in 0..MaxClaims :
                  \E claim \in ClaimsOf(review) :
                      finish_request(ClaimsReply([i \in 1..k |-> claim]))

Next == startup_event \/ analyze_text \/ await_predict \/ await_check_claims

Spec == Init /\ [][Next]_vars

(***************************************************************************)
(* The MLService object alone: startup, then initialize and predict calls  *)
(* in any order.  classifier records the last call: what loading and       *)
(* inference did, what the call did, and the service state it found.       *)
(***************************************************************************)
InitML ==
    /\ pc = "boot"
    /\ initialized = FALSE /\ tokenizer = FALSE /\ model = FALSE
    /\ api_key = "key"
    /\ classifier = None
    /\ ml_result = None
    /\ retrieval = None
    /\ fact_checks = <<>>
    /\ final_verdict = None
    /\ response = None
    /\ environment \in Environments
    /\ previous_failure = None

\* await ml_service.initialize()
call_initialize ==
    /\ pc = "idle"
    /\ \E load \in LoadOutcomes :
         LET i == initialize(service, load)
         IN  /\ initialized' = i.st.initialized
             /\ tokenizer' = i.st.tokenizer
             /\ model' = i.st.model
             /\ classifier' = [call |-> "initialize", before |-> service,
                               load |-> load, load_attempted |-> i.load_attempted,
                               inference_ran |-> FALSE, error |-> i.error]
    /\ ml_result' = None
    /\ UNCHANGED <<pc, api_key, retrieval, fact_checks, final_verdict, response,
                   environment, previous_failure>>

\* await ml_service.predict(text)
call_predict ==
    /\ pc = "idle"
    /\ \E load \in LoadOutcomes, inference \in InferenceOutcomes :
         LET p == predict(service, load, inference)
         IN  /\ initialized' = p.st.initialized
             /\ tokenizer' = p.st.tokenizer
             /\ model' = p.st.model
             /\ classifier' = [call |-> "predict", before |-> service,
                               load |-> load, load_attempted |-> p.load_attempted,
                               inference_ran |-> p.inference_ran, error |-> p.error]
             /\ ml_result' = p.result
    /\ UNCHANGED <<pc, api_key, retrieval, fact_checks, final_verdict, response,
                   environment, previous_failure>>

NextML == startup_event \/ call_initialize \/ call_predict

SpecML == InitML /\ [][NextML]_vars

(***************************************************************************)
(* Properties of synthesize (checked under SpecSynth).                     *)
(***************************************************************************)
\* the decimals the specification names, as floats
D_0_00 == FloatLit(0)
D_0_10 == FloatLit(1000)
D_0_50 == FloatLit(5000)
D_0_65 == FloatLit(6500)
D_0_70 == FloatLit(7000)
D_0_80 == FloatLit(8000)
D_0_85 == FloatLit(8500)
D_0_95 == FloatLit(9500)
D_1_00 == FloatLit(10000)

Returned == pc = "returned"
HasEvidence == fact_checks # <<>>
FalseCount == false_count(fact_checks)
TrueCount == true_count(fact_checks)
MLLabel == ml_result.prediction
MLConfidence == ml_result.confidence

\* The guards of the seven rules as the specification states them.
RuleGuards ==
    <<HasEvidence /\ FalseCount > TrueCount /\ FalseCount > 0,
      HasEvidence /\ TrueCount > FalseCount /\ TrueCount > 0,
      HasEvidence /\ FalseCount = TrueCount /\ FGreater(MLConfidence, D_0_80),
      HasEvidence /\ FalseCount = TrueCount /\ FLeq(MLConfidence, D_0_80),
      ~HasEvidence /\ FGreater(MLConfidence, D_0_85),
      ~HasEvidence /\ FGreater(MLConfidence, D_0_65)
                   /\ FLeq(MLConfidence, D_0_85),
      ~HasEvidence /\ FLeq(MLConfidence, D_0_65)>>
\* The wording each rule uses.
RuleTexts ==
    <<T_FactCheckersFalse, T_FactCheckersTrue, T_MixedConfident, T_MixedUncertain,
      T_NoChecksHigh, T_NoChecksLikely, T_NoDefinitive>>

\* C1 (totality): for every ML label, ML confidence and evidence list exactly
\* one of the seven rule guards holds, and once synthesize has returned it has
\* produced one verdict record {verdict, confidence, reasoning}, the one of
\* the rule whose guard holds.
C1_Totality ==
    /\ Cardinality({k \in 1..7 : RuleGuards[k]}) = 1
    /\ Returned =>
         /\ final_verdict # None
         /\ DOMAIN final_verdict = {"verdict", "confidence", "reasoning"}
         /\ final_verdict.verdict \in {"FAKE", "REAL", "UNCERTAIN"}
         /\ \A k \in 1..7 : RuleGuards[k] => final_verdict.reasoning.text = RuleTexts[k]

\* C1 witness: synthesize has returned for an evidence list whose items are
\* all undetermined and a low-confidence model.
C1_Witness ==
    /\ Returned /\ Len(fact_checks) = 2 /\ FalseCount = 0 /\ TrueCount = 0
    /\ MLConfidence = D_0_50
    /\ final_verdict.verdict = "UNCERTAIN"

\* C2 (fact-checker majority overrides the model): with a non-empty evidence
\* list, false_count > true_count gives FAKE and true_count > false_count
\* gives REAL, with confidence min(0.95, 0.70 + 0.10 * count), whatever the
\* ML label and ML confidence are.
C2_MajorityOverrides ==
    (Returned /\ HasEvidence) =>
        /\ FalseCount > TrueCount =>
             /\ final_verdict.verdict = "FAKE"
             /\ final_verdict.confidence =
                  FMin(D_0_95,
                       FAdd(D_0_70, FMul(D_0_10, FloatInt(FalseCount))))
        /\ TrueCount > FalseCount =>
             /\ final_verdict.verdict = "REAL"
             /\ final_verdict.confidence =
                  FMin(D_0_95,
                       FAdd(D_0_70, FMul(D_0_10, FloatInt(TrueCount))))

\* C2 witness: three fact-checkers say false against a model that says REAL
\* with confidence 1.0; the verdict is FAKE at the 0.95 cap.
C2_Witness ==
    /\ Returned /\ FalseCount = 3 /\ TrueCount = 0
    /\ MLLabel = "REAL" /\ MLConfidence = D_1_00
    /\ final_verdict.verdict = "FAKE"
    /\ final_verdict.confidence = D_0_95

\* C3 (tie rules): with a non-empty evidence list and false_count ==
\* true_count (both zero included) the verdict is the ML label with
\* confidence ml_confidence * 0.85 when ml_confidence > 0.80, and UNCERTAIN
\* with confidence 0.5 when ml_confidence <= 0.80; a non-empty evidence list
\* never gets the wording of the no-evidence rules 5-7.
C3_TieRules ==
    (Returned /\ HasEvidence) =>
        /\ (FalseCount = TrueCount /\ FGreater(MLConfidence, D_0_80)) =>
             /\ final_verdict.verdict = MLLabel
             /\ final_verdict.confidence = FMul(D_0_85, MLConfidence)
        /\ (FalseCount = TrueCount /\ FLeq(MLConfidence, D_0_80)) =>
             /\ final_verdict.verdict = "UNCERTAIN"
             /\ final_verdict.confidence = D_0_50
        /\ final_verdict.reasoning.text
             \notin {T_NoChecksHigh, T_NoChecksLikely, T_NoDefinitive}

\* C3 witness: one undetermined item (tally 0/0) and a model at exactly 0.80.
C3_Witness ==
    /\ Returned /\ Len(fact_checks) = 1 /\ FalseCount = 0 /\ TrueCount = 0
    /\ MLConfidence = D_0_80
    /\ final_verdict.verdict = "UNCERTAIN"
    /\ final_verdict.confidence = D_0_50

\* C4 (model-only rules): with an empty evidence list the confidence is
\* ml_confidence unchanged, the verdict is the ML label when ml_confidence >
\* 0.65 and UNCERTAIN otherwise, the high-confidence wording is used exactly
\* when ml_confidence > 0.85 and the moderate wording exactly when
\* 0.65 < ml_confidence <= 0.85.
C4_ModelOnlyRules ==
    (Returned /\ ~HasEvidence) =>
        /\ final_verdict.confidence = MLConfidence
        /\ FGreater(MLConfidence, D_0_65) => final_verdict.verdict = MLLabel
        /\ FLeq(MLConfidence, D_0_65) => final_verdict.verdict = "UNCERTAIN"
        /\ final_verdict.reasoning.text = T_NoChecksHigh
             <=> FGreater(MLConfidence, D_0_85)
        /\ final_verdict.reasoning.text = T_NoChecksLikely
             <=> (FGreater(MLConfidence, D_0_65)
                  /\ FLeq(MLConfidence, D_0_85))

\* C4 witness: no evidence and a model at exactly 0.85, which gets the
\* moderate wording.
C4_Witness ==
    /\ Returned /\ ~HasEvidence /\ MLConfidence = D_0_85
    /\ final_verdict.verdict = MLLabel
    /\ final_verdict.reasoning.text = T_NoChecksLikely

\* the double just below 0.80 (0.7999999999999999): doubles in [0.5, 1) are
\* 2^-53 apart
D_0_80_below == <<D_0_80[1], D_0_80[2] - Grid * Pow2(UnitExp - 53)>>

AddsToFalse(i) == false_count(<<fact_checks[i]>>)
AddsToTrue(i) == true_count(<<fact_checks[i]>>)
\* the lower-cased rating holds a falsity / a truth substring (tabulated)
falsity_in ==
    [r \in RatingStrings |->
        \E w \in {s_false, s_pants_on_fire, s_mostly_false} : In(w, lower(r))]
truth_in ==
    [r \in RatingStrings |->
        \E w \in {s_true, s_mostly_true, s_correct} : In(w, lower(r))]
lowered == [r \in RatingStrings |-> lower(r)]
HoldsFalsity(i) == falsity_in[fact_checks[i].rating]
HoldsTruth(i) == truth_in[fact_checks[i].rating]

\* C6 (tie precedence): an evidence item whose rating holds both a falsity
\* substring and a truth substring is classified FALSE only: it adds 1 to
\* false_count and 0 to true_count.
C6_FalsePrecedence ==
    Returned =>
        \A i \in DOMAIN fact_checks :
            (HoldsFalsity(i) /\ HoldsTruth(i)) => (AddsToFalse(i) = 1 /\ AddsToTrue(i) = 0)

\* C7 (tally bound): false_count >= 0, true_count >= 0, false_count +
\* true_count <= len(evidence), and no evidence item adds to both counts.
C7_TallyBound ==
    Returned =>
        /\ FalseCount >= 0 /\ TrueCount >= 0
        /\ FalseCount + TrueCount <= Len(fact_checks)
        /\ \A i \in DOMAIN fact_checks : AddsToFalse(i) + AddsToTrue(i) <= 1

\* The bucket the specification gives each rating string that matches at most
\* one of the two substring sets.
ExpectedBucket(rating) ==
    IF rating \in {r_FALSE, s_false, r_MostlyFalse, r_PantsOnFire} THEN "FALSE"
    ELSE IF rating \in {r_HalfTrue, r_HALFTRUE, r_Correct} THEN "TRUE"
    ELSE IF rating \in {r_Unproven, r_Unknown} THEN "UNDETERMINED"
    ELSE "BOTH"
Bucket(i) ==
    IF AddsToFalse(i) = 1 /\ AddsToTrue(i) = 0 THEN "FALSE"
    ELSE IF AddsToFalse(i) = 0 /\ AddsToTrue(i) = 1 THEN "TRUE"
    ELSE IF AddsToFalse(i) = 0 /\ AddsToTrue(i) = 0 THEN "UNDETERMINED"
    ELSE "BOTH"

\* C8 (rating classification): ratings that differ only in letter case get
\* the same bucket; a rating with a falsity substring and no truth substring
\* counts as FALSE, one with a truth substring and no falsity substring as
\* TRUE ("Half True" is TRUE), one with neither ("Unproven") counts in
\* neither tally; a single such item decides the rule synthesize applies.
C8_RatingClassification ==
    Returned =>
        /\ \A i, j \in DOMAIN fact_checks :
             lowered[fact_checks[i].rating] = lowered[fact_checks[j].rating]
                => Bucket(i) = Bucket(j)
        /\ \A i \in DOMAIN fact_checks :
             /\ ExpectedBucket(fact_checks[i].rating) # "BOTH"
                  => Bucket(i) = ExpectedBucket(fact_checks[i].rating)
             /\ (HoldsFalsity(i) /\ ~HoldsTruth(i)) => Bucket(i) = "FALSE"
             /\ (HoldsTruth(i) /\ ~HoldsFalsity(i)) => Bucket(i) = "TRUE"
             /\ (~HoldsTruth(i) /\ ~HoldsFalsity(i)) => Bucket(i) = "UNDETERMINED"
        /\ Len(fact_checks) = 1 =>
             final_verdict.reasoning.text \in
                CASE ExpectedBucket(fact_checks[1].rating) = "FALSE" -> {T_FactCheckersFalse}
                  [] ExpectedBucket(fact_checks[1].rating) = "TRUE" -> {T_FactCheckersTrue}
                  [] ExpectedBucket(fact_checks[1].rating) = "UNDETERMINED"
                        -> {T_MixedConfident, T_MixedUncertain}
                  [] OTHER -> {T_FactCheckersFalse, T_FactCheckersTrue,
                               T_MixedConfident, T_MixedUncertain}

\* C8 witness: "FALSE" and "false" in one list both count as false, and a
\* list holding only "HALF TRUE" is decided by rule 2.
C8_Witness ==
    /\ Returned /\ Len(fact_checks) = 2
    /\ fact_checks[1].rating = r_FALSE /\ fact_checks[2].rating = s_false
    /\ FalseCount = 2 /\ TrueCount = 0
    /\ final_verdict.verdict = "FAKE"

(***************************************************************************)
(* Properties of the request handler (checked under Spec).                 *)
(***************************************************************************)
Done == pc = "done"
\* the classifier call of the request in flight has failed: the model could
\* not be loaded, or inference raised
ClassifierFailed ==
    /\ classifier # None
    /\ \/ classifier.load \in {"tokenizer fails", "model fails", "to(device) fails"}
       \/ classifier.inference.kind = "raises"
\* the classifier call has returned a prediction
ClassifierSucceeded == classifier # None /\ ~ClassifierFailed
\* the retrieval step of the finished request has failed: no usable API key,
\* a timeout, another exception, a non-200 status or a body that is no JSON
RetrievalFailed ==
    /\ Done /\ ClassifierSucceeded
    /\ \/ api_key \in {"", "your_api_key_here"}
       \/ /\ retrieval # None
          /\ \/ retrieval.kind \in {"timeout", "error"}
             \/ retrieval.kind = "response" /\ retrieval.status_code # 200
             \/ /\ retrieval.kind = "response" /\ retrieval.status_code = 200
                /\ retrieval.body.json = "invalid"

\* C9 (degraded-path equivalence): when the classifier succeeds and the
\* retrieval step fails, check_claims returns the empty list, and the request
\* completes successfully with the verdict and confidence the same ML
\* prediction yields for an empty evidence list (rules 5-7).
C9_DegradedPath ==
    RetrievalFailed =>
        /\ fact_checks = <<>>
        /\ response.kind = "ok" /\ response.status_code = 200
        /\ response.fact_checks = <<>>
        /\ response.verdict =
             synthesize(ml_result.prediction, ml_result.confidence, <<>>).verdict
        /\ response.confidence =
             synthesize(ml_result.prediction, ml_result.confidence, <<>>).confidence
        /\ response.confidence = ml_result.confidence
        /\ response.reasoning.text \in {T_NoChecksHigh, T_NoChecksLikely, T_NoDefinitive}

\* C9 witness: the Fact Check API timed out and the request was answered
\* from the model alone, by rule 6.
C9_Witness ==
    /\ Done /\ retrieval = [kind |-> "timeout"]
    /\ ml_result.confidence = D_0_85
    /\ response.kind = "ok" /\ response.verdict = ml_result.prediction
    /\ response.reasoning.text = T_NoChecksLikely

\* C10 (fatal classifier failure): when predict fails (a failed model load
\* included) the request ends with one error outcome and no verdict:
\* synthesize is not invoked, check_claims is not called, and the response
\* carries no verdict, confidence or evidence.
C10_FatalClassifier ==
    ClassifierFailed =>
        /\ Done
        /\ response # None /\ response.kind = "error" /\ response.status_code = 500
        /\ DOMAIN response = {"kind", "status_code", "detail"}
        /\ final_verdict = None
        /\ ml_result = None
        /\ retrieval = None /\ fact_checks = <<>>

\* C10 witness: the model could not be loaded inside predict, with a usable
\* API key configured, and the request ended with the error.
C10_Witness ==
    /\ ClassifierFailed /\ classifier.load = "model fails"
    /\ api_key = "key"
    /\ Done /\ response.kind = "error" /\ final_verdict = None

\* production-like mode: ENVIRONMENT is anything but "development"
ProductionLike == environment # "development"
\* the request has ended with an error surfaced to the caller
Failed == Done /\ response # None /\ response.kind = "error"

\* C11 (generic failure message): in production-like mode every failed
\* request surfaces the same error body; a request that fails after an
\* earlier failed request gives the caller an error body identical to the
\* earlier one, whatever the two underlying exceptions were.
C11_GenericFailure ==
    (ProductionLike /\ Failed /\ previous_failure # None) =>
        response = previous_failure

\* the retrieval call of the request is started by this step
RetrievalStarts == pc # "check_claims" /\ pc' = "check_claims"
\* the classifier call has returned its prediction to the handler
ClassifierReturned == ml_result # None

\* C12 (concurrent collaborator calls): the retrieval call is started without
\* waiting for the classifier call to return: at the step that starts the
\* retrieval call the classifier call has not returned yet, so that both
\* calls are in flight at once.
C12_ConcurrentCalls ==
    [][RetrievalStarts => ~ClassifierReturned']_vars

\* check_claims has returned its list to the handler
RetrievalReturned == Done /\ ClassifierReturned /\ response # None /\ response.kind = "ok"

\* C13 (result limit of the retrieval step): whatever the API response holds,
\* the list check_claims returns has at most 5 fact-check results.
C13_ResultLimit ==
    RetrievalReturned => Len(fact_checks) <= 5

(***************************************************************************)
(* Properties of the MLService load state (checked under SpecML).          *)
(***************************************************************************)
\* the last call on the service
Called(name) == classifier # None /\ classifier.call = name
\* both parts the inference needs are loaded
Loaded == tokenizer /\ model
\* the texts of the exceptions a failed load raises
LoadErrors ==
    {"tokenizer could not be loaded", "model could not be loaded",
     "model could not be moved to the device"}

\* what holds of every state: initialized implies loaded; a call that found
\* initialized true loaded nothing and left it true; a call whose load failed
\* left initialized false; a predict that found initialized false attempted
\* the load, and ran the inference only if that load succeeded; an inference
\* that ran found the tokenizer and the model loaded
LoadStateInvariant ==
    /\ initialized => Loaded
    /\ classifier # None =>
         /\ classifier.before.initialized =>
              /\ ~classifier.load_attempted
              /\ initialized /\ Loaded
              /\ classifier.error \notin LoadErrors
         /\ classifier.error \in LoadErrors =>
              /\ classifier.load_attempted
              /\ ~initialized
              /\ ~classifier.inference_ran
         /\ (Called("predict") /\ ~classifier.before.initialized) =>
              /\ classifier.load_attempted
              /\ classifier.inference_ran <=> classifier.load = "loads"
         /\ classifier.inference_ran => (initialized /\ Loaded)
\* what holds of every step: initialized never goes back to false, nothing
\* that is loaded is unloaded, and startup leaves a running server whatever
\* the load did
LoadStateStep ==
    /\ initialized => initialized'
    /\ tokenizer => tokenizer'
    /\ model => model'
    /\ pc = "boot" => pc' = "idle"

\* C14 (model-load state across requests): after any sequence of startup,
\* initialize and predict calls, initialized implies that the tokenizer and
\* the model are loaded; initialized never goes back to false and a call
\* that finds it true reloads nothing; a failed load leaves initialized
\* false, the server starts all the same, every later predict re-attempts the
\* load before the inference, and the inference never runs while the
\* tokenizer or the model is unloaded.
C14_LoadState == []LoadStateInvariant /\ [][LoadStateStep]_vars

\* C14 witness: a predict call found the service with a tokenizer left by an
\* earlier failed load and initialized false, loaded again, and ran the
\* inference.
C14_Witness ==
    /\ Called("predict")
    /\ ~classifier.before.initialized /\ classifier.before.tokenizer
    /\ ~classifier.before.model
    /\ classifier.load_attempted /\ classifier.inference_ran
    /\ initialized /\ Loaded /\ ml_result # None

=============================================================================
